---- MODULE Spec2Model ----
(***************************************************************************)
(* Model of client/rpc/eth.go: the PublicTransactionPool facade.  Every    *)
(* method declares a result holder r, hands &r, a literal procedure name   *)
(* and its parameters to client.CallContext, and returns (r or nil, err).  *)
(* The transport (go-ethereum rpc.Client) is the environment: it either    *)
(* fails without a response or decodes the node's JSON response into the   *)
(* holder it was given.                                                     *)
(***************************************************************************)
EXTENDS Integers, Sequences, FiniteSets, TLC

VARIABLES client, pc, inv, call, holder, heap, reply, ret, calls, cancelled

vars == <<client, pc, inv, call, holder, heap, reply, ret, calls, cancelled>>

\* ------------------------------------------------------------------ bounds
\* Payloads (block tags, hashes, counts, record contents) range over 0..MaxVal.
MaxVal == 1
\* Longest array the node answers eth_pendingTransactions with.
MaxLen == 2

Vals == 0..MaxVal
\* A JSON member or element whose JSON type is not the one the Go field declares.
Bad == -1

\* Goroutines that invoke the facade concurrently.
Callers == {1, 2}

\* ------------------------------------------------------------------ values
\* error values; NoErr is Go's nil error
NoErr == "nil"
ErrNet == "connection reset"
ErrRpc == "rpc error object"
ErrDecode == "json: cannot unmarshal"
ErrCanceled == "context canceled"

\* holder values: k = "nil" is the nil pointer / nil slice / nil map
Nil == [k |-> "nil", v |-> <<>>]
Val(s) == [k |-> "val", v |-> s]

\* JSON values of a response
JNull == [j |-> "null", v |-> <<>>]
JStr(n) == [j |-> "str", v |-> <<n>>]
JObj(n) == [j |-> "obj", v |-> <<n>>]
JArr(s) == [j |-> "arr", v |-> s]
NoResp == [j |-> "none", v |-> <<>>]

RECURSIVE SeqsUpTo(_, _)
SeqsUpTo(S, n) ==
    IF n = 0 THEN {<<>>}
    ELSE LET shorter == SeqsUpTo(S, n - 1)
         IN  shorter \cup {Append(s, x) : s \in {t \in shorter : Len(t) = n - 1}, x \in S}

\* ------------------------------------------------------------------ facade
\* One row per method of publicTransactionPool: the literal procedure name,
\* the parameters after ctx, the positions of the parameters handed to
\* CallContext in order, the type of `var r`, and what is returned with an error.
Row(m, p, a, s, e) == [method |-> m, params |-> p, pass |-> a, shape |-> s, onErr |-> e]

Methods ==
    [ GetBlockTransactionCountByNumber |->
        Row("eth_getBlockTransactionCountByNumber", <<"tag">>, <<1>>, "optcount", "nil"),
      GetBlockTransactionCountByHash |->
        Row("eth_getBlockTransactionCountByHash", <<"hash">>, <<1>>, "optcount", "nil"),
      GetTransactionByBlockNumberAndIndex |->
        Row("eth_getTransactionByBlockNumberAndIndex", <<"tag", "index">>, <<1, 2>>, "opttx", "nil"),
      GetTransactionByBlockHashAndIndex |->
        Row("eth_getTransactionByBlockNumberAndIndex", <<"hash", "index">>, <<1, 2>>, "opttx", "nil"),
      GetRawTransactionByBlockNumberAndIndex |->
        Row("eth_getRawTransactionByBlockNumberAndIndex", <<"tag", "index">>, <<1, 2>>, "bytes", "holder"),
      GetRawTransactionByBlockHashAndIndex |->
        Row("eth_getRawTransactionByBlockHashAndIndex", <<"hash", "index">>, <<1, 2>>, "bytes", "holder"),
      GetTransactionCount |->
        Row("eth_getTransactionCount", <<"address", "tag">>, <<1, 2>>, "optcount", "nil"),
      GetTransactionByHash |->
        Row("eth_getTransactionByHash", <<"hash">>, <<1>>, "opttx", "nil"),
      GetRawTransactionByHash |->
        Row("eth_getRawTransactionByHash", <<"hash">>, <<1>>, "bytes", "holder"),
      GetTransactionReceipt |->
        Row("eth_getTransactionReceipt", <<"hash">>, <<1>>, "map", "holder"),
      SendTransaction |->
        Row("eth_sendTransaction", <<"txargs">>, <<1>>, "hash", "holder"),
      SendRawTransaction |->
        Row("eth_sendRawTransaction", <<"bytes">>, <<1>>, "hash", "holder"),
      Sign |->
        Row("eth_sign", <<"address", "bytes">>, <<1, 2>>, "bytes", "nil"),
      Resend |->
        Row("eth_resend", <<"txargs", "big", "big">>, <<1, 2, 3>>, "hash", "holder"),
      SignTransaction |->
        Row("eth_signTransaction", <<"txargs">>, <<1>>, "optsigned", "nil"),
      GetRawTransaction |->
        Row("eth_getRawTransactionByHash", <<"hash">>, <<1>>, "bytes", "holder"),
      PendingTransactions |->
        Row("eth_pendingTransactions", <<>>, <<>>, "txseq", "holder") ]

\* every method of the concrete type
Ops == DOMAIN Methods

\* the methods the PublicTransactionPool interface declares
PublicTransactionPool == Ops \ {"GetRawTransaction"}

\* the zero value `var r` starts with
ZeroOf(shape) == IF shape = "hash" THEN Val(<<0>>) ELSE Nil

\* the parameter lists a caller can pass to op
ArgsFor(op) ==
    LET p == Methods[op].params
    IN  {a \in [1..Len(p) -> [t : {p[i] : i \in 1..Len(p)}, v : Vals]] :
            \A i \in 1..Len(p) : a[i].t = p[i]}

\* CallArgs with the parameters handed over last to first
CallArgsReversed(op, in) ==
    LET a == Methods[op].pass IN [i \in 1..Len(a) |-> in[a[Len(a) + 1 - i]]]

\* the variadic args of the CallContext call
CallArgs(op, in) ==
    LET a == Methods[op].pass IN [i \in 1..Len(a) |-> in[a[i]]]

\* CallCtx with a timeout of the facade's own put on the context
CallCtxWithTimeout(ctx) == [ctx EXCEPT !.localDeadline = TRUE]

\* the ctx of the CallContext call: the method's own ctx parameter
CallCtx(ctx) == ctx

\* NewHolder with one holder kept by the facade and used by every invocation
NewHolderShared(c) == CHOOSE a \in Callers : TRUE

\* the address of the method's `var r`: a variable of the invocation's own frame
NewHolder(c) == c

\* ReturnValue with the transport's error wrapped in one of the facade's own
ReturnValueWrapped(op, r, err) ==
    IF err # NoErr
    THEN [result |-> IF Methods[op].onErr = "holder" THEN r ELSE Nil, err |-> "eth: call failed"]
    ELSE [result |-> r, err |-> NoErr]

\* ReturnValue with a nil result replaced by a zero one
ReturnValueZeroed(op, r, err) ==
    IF err # NoErr
    THEN [result |-> IF Methods[op].onErr = "holder" THEN r ELSE Nil, err |-> err]
    ELSE [result |-> IF r = Nil THEN Val(<<0>>) ELSE r, err |-> NoErr]

\* ReturnValue with the holder's zero value returned on success
ReturnValueDropped(op, r, err) ==
    IF err # NoErr
    THEN [result |-> IF Methods[op].onErr = "holder" THEN r ELSE Nil, err |-> err]
    ELSE [result |-> ZeroOf(Methods[op].shape), err |-> NoErr]

\* ReturnValue with an empty sequence returned as nil
ReturnValueNilEmpty(op, r, err) ==
    IF err # NoErr
    THEN [result |-> IF Methods[op].onErr = "holder" THEN r ELSE Nil, err |-> err]
    ELSE [result |-> IF r.v = <<>> THEN Nil ELSE r, err |-> NoErr]

\* the return statements after the call
ReturnValue(op, r, err) ==
    IF err # NoErr
    THEN [result |-> IF Methods[op].onErr = "holder" THEN r ELSE Nil, err |-> err]
    ELSE [result |-> r, err |-> NoErr]

\* ------------------------------------------------------------------ transport
\* The JSON results a node answers with, per holder type: the well-typed ones
\* and one of another JSON type.
Responses(shape) ==
    CASE shape = "optcount" -> {JNull, JObj(0)} \cup {JStr(n) : n \in Vals}
      [] shape \in {"opttx", "optsigned", "map"} ->
            {JNull, JStr(0)} \cup {JObj(n) : n \in Vals \cup {Bad}}
      [] shape \in {"bytes", "hash"} -> {JNull} \cup {JStr(n) : n \in Vals}
      [] shape = "txseq" ->
            {JNull, JStr(0)} \cup {JArr(s) : s \in SeqsUpTo(Vals \cup {Bad}, MaxLen)}

\* index of the first mistyped element of s, 0 when there is none
FirstBad(s) ==
    IF \E i \in 1..Len(s) : s[i] = Bad
    THEN CHOOSE i \in 1..Len(s) : s[i] = Bad /\ \A j \in 1..(i - 1) : s[j] # Bad
    ELSE 0

\* json.Unmarshal(resp.Result, &r) for a holder of the given type holding old:
\* the holder afterwards and the error.  A pointer holder is allocated before
\* its content is decoded and a slice grows element by element, so both keep
\* what was written when decoding fails; hexutil.Bytes, common.Hash and the
\* map are assigned only after a successful decode.
Decode(shape, resp, old) ==
    CASE shape = "optcount" ->
            IF resp.j = "null" THEN [r |-> Nil, err |-> NoErr]
            ELSE IF resp.j = "str" THEN [r |-> Val(resp.v), err |-> NoErr]
            ELSE [r |-> Val(<<0>>), err |-> ErrDecode]
      [] shape \in {"opttx", "optsigned"} ->
            IF resp.j = "null" THEN [r |-> Nil, err |-> NoErr]
            ELSE IF resp.j = "obj" /\ resp.v[1] # Bad THEN [r |-> Val(resp.v), err |-> NoErr]
            ELSE [r |-> Val(<<0>>), err |-> ErrDecode]
      [] shape \in {"bytes", "hash"} ->
            IF resp.j = "str" THEN [r |-> Val(resp.v), err |-> NoErr]
            ELSE [r |-> old, err |-> ErrDecode]
      [] shape = "map" ->
            IF resp.j = "null" THEN [r |-> Nil, err |-> NoErr]
            ELSE IF resp.j = "obj" THEN [r |-> Val(resp.v), err |-> NoErr]
            ELSE [r |-> old, err |-> ErrDecode]
      [] shape = "txseq" ->
            IF resp.j = "null" THEN [r |-> Nil, err |-> NoErr]
            ELSE IF resp.j = "arr"
                 THEN IF FirstBad(resp.v) = 0
                      THEN [r |-> Val(resp.v), err |-> NoErr]
                      ELSE [r |-> Val(Append(SubSeq(resp.v, 1, FirstBad(resp.v) - 1), 0)),
                            err |-> ErrDecode]
            ELSE [r |-> old, err |-> ErrDecode]

\* The errors CallContext reports without a response to decode.  It reports
\* the cancellation only of the context it was handed.
TransportErrors(ctx) ==
    {ErrNet, ErrRpc} \cup
        (IF cancelled[ctx.id] \/ ctx.localDeadline THEN {ErrCanceled} ELSE {})

\* What CallContext can do with a call: the response it got (if any), the
\* holder afterwards and the error it returns.
Outcomes(shape, ctx, old) ==
    {[resp |-> NoResp, r |-> old, err |-> e] : e \in TransportErrors(ctx)} \cup
    {[resp |-> q] @@ Decode(shape, q, old) : q \in Responses(shape)}

\* ------------------------------------------------------------------ state
NoInv == [op |-> "none", args |-> <<>>, ctx |-> [id |-> 0, localDeadline |-> FALSE]]
NoCall == [method |-> "none", args |-> <<>>, ctx |-> [id |-> 0, localDeadline |-> FALSE], result |-> 0]
NoReply == [resp |-> NoResp, r |-> Nil, err |-> NoErr]
NoRet == [op |-> "none", result |-> Nil, err |-> NoErr]

\* NewPublicTransactionPool(client): the facade holds the connection and nothing else
Init ==
    /\ client = "conn"
    /\ pc = [c \in Callers |-> "idle"]
    /\ inv = [c \in Callers |-> NoInv]
    /\ call = [c \in Callers |-> NoCall]
    /\ holder = [c \in Callers |-> 0]
    /\ heap = [a \in Callers |-> Nil]
    /\ reply = [c \in Callers |-> NoReply]
    /\ ret = [c \in Callers |-> NoRet]
    /\ calls = [c \in Callers |-> 0]
    /\ cancelled = [c \in Callers |-> FALSE]

\* A method up to the point where CallContext has the request: `var r`, then
\* pub.client.CallContext(ctx, &r, "eth_...", params...).
Invoke(c, op, in) ==
    /\ pc[c] \in {"idle", "returned"}
    /\ LET ctx == [id |-> c, localDeadline |-> FALSE]
           a == NewHolder(c)
       IN  /\ inv' = [inv EXCEPT ![c] = [op |-> op, args |-> in, ctx |-> ctx]]
           /\ holder' = [holder EXCEPT ![c] = a]
           /\ heap' = [heap EXCEPT ![a] = ZeroOf(Methods[op].shape)]
           /\ call' = [call EXCEPT ![c] =
                         [method |-> Methods[op].method, args |-> CallArgs(op, in),
                          ctx |-> CallCtx(ctx), result |-> a]]
    /\ calls' = [calls EXCEPT ![c] = 1]
    /\ cancelled' = [cancelled EXCEPT ![c] = FALSE]
    /\ reply' = [reply EXCEPT ![c] = NoReply]
    /\ ret' = [ret EXCEPT ![c] = NoRet]
    /\ pc' = [pc EXCEPT ![c] = "called"]
    /\ UNCHANGED client

\* The caller cancels the context of its call while the call is in flight.
Cancel(c) ==
    /\ pc[c] = "called"
    /\ ~cancelled[c]
    /\ cancelled' = [cancelled EXCEPT ![c] = TRUE]
    /\ UNCHANGED <<client, pc, inv, call, holder, heap, reply, ret, calls>>

\* CallContext returns: it has written the holder it was given and reports err.
TransportReply(c) ==
    /\ pc[c] = "called"
    /\ \E out \in Outcomes(Methods[inv[c].op].shape, call[c].ctx, heap[call[c].result]) :
          /\ heap' = [heap EXCEPT ![call[c].result] = out.r]
          /\ reply' = [reply EXCEPT ![c] = out]
    /\ pc' = [pc EXCEPT ![c] = "replied"]
    /\ UNCHANGED <<client, inv, call, holder, ret, calls, cancelled>>

\* Return with a failed call issued once more instead of returning its error
ReturnRetry(c) ==
    /\ pc[c] = "replied"
    /\ IF reply[c].err # NoErr
       THEN /\ calls' = [calls EXCEPT ![c] = @ + 1]
            /\ pc' = [pc EXCEPT ![c] = "called"]
            /\ UNCHANGED <<client, inv, call, holder, heap, reply, ret, cancelled>>
       ELSE /\ ret' = [ret EXCEPT ![c] =
                         [op |-> inv[c].op] @@ ReturnValue(inv[c].op, heap[holder[c]], reply[c].err)]
            /\ inv' = [inv EXCEPT ![c] = NoInv]
            /\ call' = [call EXCEPT ![c] = NoCall]
            /\ cancelled' = [cancelled EXCEPT ![c] = FALSE]
            /\ pc' = [pc EXCEPT ![c] = "returned"]
            /\ UNCHANGED <<client, holder, heap, reply, calls>>

\* if err != nil { return nil|r, err }; return r, nil.  The frame and the
\* context of the call end with it.
Return(c) ==
    /\ pc[c] = "replied"
    /\ ret' = [ret EXCEPT ![c] =
                 [op |-> inv[c].op] @@ ReturnValue(inv[c].op, heap[holder[c]], reply[c].err)]
    /\ inv' = [inv EXCEPT ![c] = NoInv]
    /\ call' = [call EXCEPT ![c] = NoCall]
    /\ cancelled' = [cancelled EXCEPT ![c] = FALSE]
    /\ pc' = [pc EXCEPT ![c] = "returned"]
    /\ UNCHANGED <<client, holder, heap, reply, calls>>

\* the parameter lists whose payloads are all 0
ArgsZero(op) == {a \in ArgsFor(op) : \A i \in 1..Len(a) : a[i].v = 0}

\* One goroutine uses the facade, with every parameter list.
NextSingle ==
    \/ \E op \in Ops : \E in \in ArgsFor(op) : Invoke(1, op, in)
    \/ Cancel(1)
    \/ TransportReply(1)
    \/ Return(1)

SpecSingle == Init /\ [][NextSingle]_vars

\* Every goroutine uses the facade, in any interleaving.  A parameter's payload
\* has no part in what a call returns, so each parameter list has payload 0.
NextConcurrent ==
    \/ \E c \in Callers, op \in Ops : \E in \in ArgsZero(op) : Invoke(c, op, in)
    \/ \E c \in Callers : Cancel(c)
    \/ \E c \in Callers : TransportReply(c)
    \/ \E c \in Callers : Return(c)

SpecConcurrent == Init /\ [][NextConcurrent]_vars

\* ------------------------------------------------------------------ properties
InFlight(c) == pc[c] \in {"called", "replied"}
Returned(c) == pc[c] = "returned"

\* the procedure each operation of the interface is named after
EthName ==
    [ GetBlockTransactionCountByNumber |-> "eth_getBlockTransactionCountByNumber",
      GetBlockTransactionCountByHash |-> "eth_getBlockTransactionCountByHash",
      GetTransactionByBlockNumberAndIndex |-> "eth_getTransactionByBlockNumberAndIndex",
      GetTransactionByBlockHashAndIndex |-> "eth_getTransactionByBlockHashAndIndex",
      GetRawTransactionByBlockNumberAndIndex |-> "eth_getRawTransactionByBlockNumberAndIndex",
      GetRawTransactionByBlockHashAndIndex |-> "eth_getRawTransactionByBlockHashAndIndex",
      GetTransactionCount |-> "eth_getTransactionCount",
      GetTransactionByHash |-> "eth_getTransactionByHash",
      GetRawTransactionByHash |-> "eth_getRawTransactionByHash",
      GetTransactionReceipt |-> "eth_getTransactionReceipt",
      SendTransaction |-> "eth_sendTransaction",
      SendRawTransaction |-> "eth_sendRawTransaction",
      Sign |-> "eth_sign",
      Resend |-> "eth_resend",
      SignTransaction |-> "eth_signTransaction",
      PendingTransactions |-> "eth_pendingTransactions" ]

\* C1: each of the 16 operations of the interface invokes the eth_* procedure
\* named after it (and so no two of them invoke the same procedure).
C1_ProcedureNames ==
    /\ Cardinality(PublicTransactionPool) = 16
    /\ \A c \in Callers :
          (InFlight(c) /\ inv[c].op \in PublicTransactionPool)
              => call[c].method = EthName[inv[c].op]

\* C2: the error an operation returns is exactly the error the transport
\* call returned, and no error when the transport returned none.
C2_ErrorPropagated ==
    \A c \in Callers : Returned(c) => ret[c].err = reply[c].err

C2_Witness ==
    \E c \in Callers : Returned(c) /\ reply[c].err = ErrRpc /\ ret[c].err = ErrRpc

\* C3: whenever the transport call fails, the result returned with the error
\* is the empty value of its type, whatever the transport left in the holder.
C3_NoPartialResult ==
    \A c \in Callers :
        (Returned(c) /\ ret[c].err # NoErr)
            => ret[c].result = ZeroOf(Methods[ret[c].op].shape)

\* C4: every invocation issues exactly one transport call, whether the call
\* succeeds or fails; none is retried and none returns without a call.
C4_ExactlyOneCall ==
    \A c \in Callers : calls[c] = IF pc[c] = "idle" THEN 0 ELSE 1

C4_Witness ==
    \E c \in Callers : Returned(c) /\ ret[c].err = ErrNet /\ calls[c] = 1

\* the input column of each operation
InputColumn ==
    [ GetBlockTransactionCountByNumber |-> <<"tag">>,
      GetBlockTransactionCountByHash |-> <<"hash">>,
      GetTransactionByBlockNumberAndIndex |-> <<"tag", "index">>,
      GetTransactionByBlockHashAndIndex |-> <<"hash", "index">>,
      GetRawTransactionByBlockNumberAndIndex |-> <<"tag", "index">>,
      GetRawTransactionByBlockHashAndIndex |-> <<"hash", "index">>,
      GetTransactionCount |-> <<"address", "tag">>,
      GetTransactionByHash |-> <<"hash">>,
      GetRawTransactionByHash |-> <<"hash">>,
      GetTransactionReceipt |-> <<"hash">>,
      SendTransaction |-> <<"txargs">>,
      SendRawTransaction |-> <<"bytes">>,
      Sign |-> <<"address", "bytes">>,
      Resend |-> <<"txargs", "big", "big">>,
      SignTransaction |-> <<"txargs">>,
      PendingTransactions |-> <<>> ]

\* C5: the argument list the transport observes is the operation's inputs,
\* unmodified and in the order of the operation table.
C5_ArgumentsInOrder ==
    \A c \in Callers :
        (InFlight(c) /\ inv[c].op \in PublicTransactionPool)
            => /\ call[c].args = inv[c].args
               /\ [i \in 1..Len(call[c].args) |-> call[c].args[i].t] = InputColumn[inv[c].op]

C5_Witness ==
    \E c \in Callers :
        /\ InFlight(c)
        /\ inv[c].op = "Resend"
        /\ call[c].args[2].v # call[c].args[3].v

OptionalOps ==
    {"GetBlockTransactionCountByNumber", "GetBlockTransactionCountByHash",
     "GetTransactionCount", "GetTransactionByBlockNumberAndIndex",
     "GetTransactionByBlockHashAndIndex", "GetTransactionByHash"}

\* C6: an operation with an optional result returns the absent value and no
\* error when the transport succeeds with JSON null, and a successful zero
\* response yields a present zero, which is not the absent value.
C6_NullIsAbsent ==
    \A c \in Callers :
        (Returned(c) /\ ret[c].op \in OptionalOps /\ reply[c].err = NoErr)
            => /\ reply[c].resp = JNull => (ret[c].result = Nil /\ ret[c].err = NoErr)
               /\ reply[c].resp \in {JStr(0), JObj(0)}
                     => (ret[c].result = Val(<<0>>) /\ ret[c].result # Nil /\ ret[c].err = NoErr)

C6_Witness ==
    \E c \in Callers :
        /\ Returned(c)
        /\ ret[c].op = "GetTransactionCount"
        /\ reply[c].resp = JNull
        /\ ret[c] = [op |-> "GetTransactionCount", result |-> Nil, err |-> NoErr]

\* C7: when the transport call succeeds, the value returned is exactly the
\* value the transport decoded into the result holder.
C7_ResultUnmodified ==
    \A c \in Callers :
        (Returned(c) /\ reply[c].err = NoErr) => ret[c].result = reply[c].r

C7_Witness ==
    \E c \in Callers :
        /\ Returned(c)
        /\ ret[c].op = "SendRawTransaction"
        /\ reply[c].resp = JStr(1)
        /\ ret[c].result = Val(<<1>>)
        /\ ret[c].err = NoErr

\* C8: PendingTransactions returns, for an empty array, an empty sequence
\* that is not nil and no error, and for a non-empty array the elements of
\* the response in the same order.
C8_PendingSequence ==
    \A c \in Callers :
        (Returned(c) /\ ret[c].op = "PendingTransactions"
           /\ reply[c].resp.j = "arr" /\ reply[c].err = NoErr)
            => /\ ret[c].err = NoErr
               /\ ret[c].result # Nil
               /\ ret[c].result.k = "val"
               /\ ret[c].result.v = reply[c].resp.v

C8_Witness ==
    \E c \in Callers :
        /\ Returned(c)
        /\ ret[c].op = "PendingTransactions"
        /\ reply[c].resp = JArr(<<>>)
        /\ ret[c].result = Val(<<>>)
        /\ ret[c].err = NoErr

\* C9: the context the transport call receives is the caller's own, with no
\* timeout added; the transport reports a cancellation only when the caller
\* cancelled, and the operation then returns that error after its one call.
C9_CallerContext ==
    \A c \in Callers :
        /\ InFlight(c) => (call[c].ctx = inv[c].ctx /\ ~call[c].ctx.localDeadline)
        /\ (pc[c] = "replied" /\ reply[c].err = ErrCanceled) => cancelled[c]
        /\ (Returned(c) /\ reply[c].err = ErrCanceled)
              => (ret[c].err = ErrCanceled /\ calls[c] = 1)

C9_Witness ==
    \E c \in Callers : Returned(c) /\ reply[c].err = ErrCanceled /\ ret[c].err = ErrCanceled

\* C10: under any interleaving, what an invocation returns is decided by the
\* transport's answer to its own call; invocations in flight have distinct
\* holders, and the facade's client field never changes.
C10_Independent ==
    /\ client = "conn"
    /\ \A c, d \in Callers : (c # d /\ InFlight(c) /\ InFlight(d)) => holder[c] # holder[d]
    /\ \A c \in Callers :
          /\ pc[c] = "replied" => heap[holder[c]] = reply[c].r
          /\ Returned(c)
                => ret[c] = [op |-> ret[c].op]
                              @@ ReturnValue(ret[c].op, reply[c].r, reply[c].err)

C10_Witness ==
    \E c, d \in Callers :
        /\ c # d
        /\ pc[c] = "replied"
        /\ pc[d] = "replied"
        /\ reply[c].r # reply[d].r

====
